---- MODULE Spec2Model ----
(***************************************************************************)
(* Model of the provider registry module of scira-mcp-chat                 *)
(* (src/unnamed/part_000, src/ai/types.ts): credential resolution, the     *)
(* eager construction of the provider clients and of the model registry,  *)
(* the metadata catalog, the storage listener that reloads the page, and  *)
(* the exported surface.                                                   *)
(*                                                                         *)
(* Key names are sequences of one-character strings, so that               *)
(* String.prototype.includes is computed and not assumed.                  *)
(***************************************************************************)
EXTENDS Integers, Sequences, FiniteSets, TLC

VARIABLES
    hasWindow,       \* typeof window !== 'undefined'
    env,             \* process.env, restricted to the keys the module reads
    store,           \* window.localStorage, restricted to the same keys
    writes,          \* number of external writes to env / localStorage so far
    events,          \* storage events dispatched and not yet handled
    reloads,         \* number of window.location.reload() calls so far
    status,          \* "unloaded" | "ready" | "failed": the module's evaluation
    thrown,          \* what aborted the last evaluation, "none" if nothing did
    assigned,        \* the top-level consts that left their temporal dead zone
    clients,         \* family -> provider client (its bound apiKey and baseURL)
    languageModels,  \* the registry object, id -> entry
    modelDetails,    \* the catalog object, id -> ModelInfo
    listening,       \* the 'storage' listener is registered on window
    model,           \* customProvider({ languageModels })
    MODELS,          \* Object.keys(languageModels)
    defaultModel     \* the default identifier

vars == <<hasWindow, env, store, writes, events, reloads, status, thrown,
          assigned, clients, languageModels, modelDetails, listening, model,
          MODELS, defaultModel>>

moduleVars == <<assigned, clients, languageModels, modelDetails, model,
                MODELS, defaultModel>>

----------------------------------------------------------------------------
\* Bounds of the exploration.
MaxWrites == 2
MaxPending == 1
MaxReloads == 1

----------------------------------------------------------------------------
\* JavaScript values.
Undefined == "<undefined>"
Null == "<null>"
ReferenceError == "<ReferenceError>"

\* ToBoolean on the values a credential source can hold.
Truthy(v) == v # Undefined /\ v # Null /\ v # ""

\* The expression `x || undefined`.
OrUndefined(x) == IF Truthy(x) THEN x ELSE Undefined

\* String.prototype.includes on character sequences.
Includes(s, sub) ==
    \E i \in 0..(Len(s) - Len(sub)) : SubSeq(s, i + 1, i + Len(sub)) = sub

----------------------------------------------------------------------------
\* The key names the module passes to getApiKey, and the handler's substring.
OPENAI_API_KEY == <<"O","P","E","N","A","I","_","A","P","I","_","K","E","Y">>
ANTHROPIC_API_KEY == <<"A","N","T","H","R","O","P","I","C","_","A","P","I","_","K","E","Y">>
GROQ_API_KEY == <<"G","R","O","Q","_","A","P","I","_","K","E","Y">>
XAI_API_KEY == <<"X","A","I","_","A","P","I","_","K","E","Y">>
GOOGLE_GENERATIVE_AI_API_KEY == <<"G","O","O","G","L","E","_","G","E","N","E","R","A","T","I","V","E","_","A","I","_","A","P","I","_","K","E","Y">>
API_KEY == <<"A","P","I","_","K","E","Y">>

\* The provider clients in the order the module constructs them.
ClientOrder == <<"openai", "anthropic", "groq", "xai", "google">>

Families == {ClientOrder[i] : i \in 1..Len(ClientOrder)}

KeyOf(fam) ==
    CASE fam = "openai" -> OPENAI_API_KEY
      [] fam = "anthropic" -> ANTHROPIC_API_KEY
      [] fam = "groq" -> GROQ_API_KEY
      [] fam = "xai" -> XAI_API_KEY
      [] fam = "google" -> GOOGLE_GENERATIVE_AI_API_KEY

\* The const each client is bound to.
ConstOf(fam) ==
    CASE fam = "openai" -> "openaiClient"
      [] fam = "anthropic" -> "anthropicClient"
      [] fam = "groq" -> "groqClient"
      [] fam = "xai" -> "xaiClient"
      [] fam = "google" -> "googleClient"

BaseURLOf(fam) ==
    IF fam = "google"
    THEN "https://generativelanguage.googleapis.com/v1beta"
    ELSE Undefined

ProviderKeys == {KeyOf(fam) : fam \in Families}

----------------------------------------------------------------------------
\* Inputs of the environment: the values a source may hold, and the keys of
\* other localStorage entries whose change the listener also hears.
EnvValues == {Undefined, "", "env-key"}
StoreValues == {Null, "", "store-key"}

theme == <<"t","h","e","m","e">>
api_key == <<"a","p","i","_","k","e","y">>
API_KEYS == <<"A","P","I","_","K","E","Y","S">>
XAPI_KE == <<"X","A","P","I","_","K","E">>

OtherKeys == {theme, api_key, API_KEYS, XAPI_KE}

----------------------------------------------------------------------------
\* extractReasoningMiddleware({ tagName: 'think' }): only its configuration
\* is code of this module.
middleware == [tagName |-> "think"]

\* The entries of the languageModels literal, in source order.  An entry
\* records the client called, the version string passed to it, the
\* middleware passed to wrapLanguageModel ({} when the entry is not wrapped)
\* and the providerOptions passed with it ({} when none are).
entryGpt41Mini ==
    [id |-> "gpt-4.1-mini", client |-> "openai", version |-> "gpt-4.1-mini",
     middleware |-> {},
     providerOptions |->
    {}]

entryClaude37Sonnet ==
    [id |-> "claude-3-7-sonnet", client |-> "anthropic", version |-> "claude-3-7-sonnet-20250219",
     middleware |-> {},
     providerOptions |->
    {}]

entryQwenQwq ==
    [id |-> "qwen-qwq", client |-> "groq", version |-> "qwen-qwq-32b",
     middleware |-> {middleware},
     providerOptions |->
    {}]

entryGrok3Mini ==
    [id |-> "grok-3-mini", client |-> "xai", version |-> "grok-3-mini-latest",
     middleware |-> {},
     providerOptions |->
    {}]

entryGeminiPro ==
    [id |-> "gemini-pro", client |-> "google", version |-> "gemini-pro",
     middleware |-> {middleware},
     providerOptions |->
    {[responseModalities |-> <<"TEXT">>,
      thinkingConfig |-> [thinkingBudget |-> 1024],
      safetySettings |-> <<
          [category |-> "HARM_CATEGORY_DANGEROUS_CONTENT", threshold |-> "BLOCK_MEDIUM_AND_ABOVE"],
          [category |-> "HARM_CATEGORY_HATE_SPEECH", threshold |-> "BLOCK_MEDIUM_AND_ABOVE"],
          [category |-> "HARM_CATEGORY_HARASSMENT", threshold |-> "BLOCK_MEDIUM_AND_ABOVE"],
          [category |-> "HARM_CATEGORY_SEXUALLY_EXPLICIT", threshold |-> "BLOCK_MEDIUM_AND_ABOVE"] >>]}]

entryGemini25FlashPreview ==
    [id |-> "gemini-2-5-flash-preview", client |-> "google", version |-> "gemini-2.5-flash-preview-04-17",
     middleware |-> {middleware},
     providerOptions |->
    {[responseModalities |-> <<"TEXT">>,
      thinkingConfig |-> [thinkingBudget |-> 1024],
      safetySettings |-> <<
          [category |-> "HARM_CATEGORY_DANGEROUS_CONTENT", threshold |-> "BLOCK_MEDIUM_AND_ABOVE"],
          [category |-> "HARM_CATEGORY_HATE_SPEECH", threshold |-> "BLOCK_MEDIUM_AND_ABOVE"],
          [category |-> "HARM_CATEGORY_HARASSMENT", threshold |-> "BLOCK_MEDIUM_AND_ABOVE"],
          [category |-> "HARM_CATEGORY_SEXUALLY_EXPLICIT", threshold |-> "BLOCK_MEDIUM_AND_ABOVE"] >>]}]

entryGemini25ProExp ==
    [id |-> "gemini-2-5-pro-exp", client |-> "google", version |-> "gemini-2.5-pro-exp-03-25",
     middleware |-> {middleware},
     providerOptions |->
    {[responseModalities |-> <<"TEXT">>,
      thinkingConfig |-> [thinkingBudget |-> 1024],
      safetySettings |-> <<
          [category |-> "HARM_CATEGORY_DANGEROUS_CONTENT", threshold |-> "BLOCK_MEDIUM_AND_ABOVE"],
          [category |-> "HARM_CATEGORY_HATE_SPEECH", threshold |-> "BLOCK_MEDIUM_AND_ABOVE"],
          [category |-> "HARM_CATEGORY_HARASSMENT", threshold |-> "BLOCK_MEDIUM_AND_ABOVE"],
          [category |-> "HARM_CATEGORY_SEXUALLY_EXPLICIT", threshold |-> "BLOCK_MEDIUM_AND_ABOVE"] >>]}]

\* A variant of the last entry with a different thinking budget.
entryGemini20FlashBudget2048 ==
    [id |-> "gemini-2-0-flash", client |-> "google", version |-> "gemini-2.0-flash",
     middleware |-> {middleware},
     providerOptions |->
    {[responseModalities |-> <<"TEXT">>,
      thinkingConfig |-> [thinkingBudget |-> 2048],
      safetySettings |-> <<
          [category |-> "HARM_CATEGORY_DANGEROUS_CONTENT", threshold |-> "BLOCK_MEDIUM_AND_ABOVE"],
          [category |-> "HARM_CATEGORY_HATE_SPEECH", threshold |-> "BLOCK_MEDIUM_AND_ABOVE"],
          [category |-> "HARM_CATEGORY_HARASSMENT", threshold |-> "BLOCK_MEDIUM_AND_ABOVE"],
          [category |-> "HARM_CATEGORY_SEXUALLY_EXPLICIT", threshold |-> "BLOCK_MEDIUM_AND_ABOVE"] >>]}]

entryGemini20Flash ==
    [id |-> "gemini-2-0-flash", client |-> "google", version |-> "gemini-2.0-flash",
     middleware |-> {middleware},
     providerOptions |->
    {[responseModalities |-> <<"TEXT">>,
      thinkingConfig |-> [thinkingBudget |-> 1024],
      safetySettings |-> <<
          [category |-> "HARM_CATEGORY_DANGEROUS_CONTENT", threshold |-> "BLOCK_MEDIUM_AND_ABOVE"],
          [category |-> "HARM_CATEGORY_HATE_SPEECH", threshold |-> "BLOCK_MEDIUM_AND_ABOVE"],
          [category |-> "HARM_CATEGORY_HARASSMENT", threshold |-> "BLOCK_MEDIUM_AND_ABOVE"],
          [category |-> "HARM_CATEGORY_SEXUALLY_EXPLICIT", threshold |-> "BLOCK_MEDIUM_AND_ABOVE"] >>]}]

languageModelsLiteral ==
    <<entryGpt41Mini, entryClaude37Sonnet, entryQwenQwq, entryGrok3Mini,
      entryGeminiPro, entryGemini25FlashPreview, entryGemini25ProExp,
      entryGemini20Flash>>

\* A variant of the catalog literal that lacks the record of grok-3-mini.
modelDetailsLiteralWithoutGrok ==
    <<
      [id |-> "gpt-4.1-mini", provider |-> "OpenAI", name |-> "GPT-4.1 Mini",
       description |-> "Compact version of OpenAI's GPT-4.1 with good balance of capabilities, including vision.",
       apiVersion |-> "gpt-4.1-mini",
       capabilities |-> <<"Balance", "Creative", "Vision">>],
      [id |-> "claude-3-7-sonnet", provider |-> "Anthropic", name |-> "Claude 3.7 Sonnet",
       description |-> "Latest version of Anthropic's Claude 3.7 Sonnet with strong reasoning and coding capabilities.",
       apiVersion |-> "claude-3-7-sonnet-20250219",
       capabilities |-> <<"Reasoning", "Efficient", "Agentic">>],
      [id |-> "qwen-qwq", provider |-> "Groq", name |-> "Qwen QWQ",
       description |-> "Latest version of Alibaba's Qwen QWQ with strong reasoning and coding capabilities.",
       apiVersion |-> "qwen-qwq",
       capabilities |-> <<"Reasoning", "Efficient", "Agentic">>],
      [id |-> "gemini-pro", provider |-> "Google", name |-> "Gemini Pro",
       description |-> "Google's Gemini Pro model with strong reasoning, coding, and multimodal capabilities.",
       apiVersion |-> "gemini-pro",
       capabilities |-> <<"Reasoning", "Multimodal", "Coding">>],
      [id |-> "gemini-2-5-flash-preview", provider |-> "Google", name |-> "Gemini 2.5 Flash Preview",
       description |-> "Latest preview version of Gemini 2.5 Flash with improved speed and capabilities.",
       apiVersion |-> "gemini-2.5-flash-preview-04-17",
       capabilities |-> <<"Fast", "Preview", "Improved">>],
      [id |-> "gemini-2-5-pro-exp", provider |-> "Google", name |-> "Gemini 2.5 Pro Experimental",
       description |-> "Experimental version of Gemini 2.5 Pro with advanced features and capabilities.",
       apiVersion |-> "gemini-2.5-pro-exp-03-25",
       capabilities |-> <<"Advanced", "Experimental", "Enhanced">>],
      [id |-> "gemini-2-0-flash", provider |-> "Google", name |-> "Gemini 2.0 Flash",
       description |-> "Fast and efficient version of Gemini 2.0 optimized for quick responses.",
       apiVersion |-> "gemini-2.0-flash",
       capabilities |-> <<"Fast", "Efficient", "Optimized">>] >>

\* The modelDetails literal, in source order.
modelDetailsLiteral ==
    <<
      [id |-> "gpt-4.1-mini", provider |-> "OpenAI", name |-> "GPT-4.1 Mini",
       description |-> "Compact version of OpenAI's GPT-4.1 with good balance of capabilities, including vision.",
       apiVersion |-> "gpt-4.1-mini",
       capabilities |-> <<"Balance", "Creative", "Vision">>],
      [id |-> "claude-3-7-sonnet", provider |-> "Anthropic", name |-> "Claude 3.7 Sonnet",
       description |-> "Latest version of Anthropic's Claude 3.7 Sonnet with strong reasoning and coding capabilities.",
       apiVersion |-> "claude-3-7-sonnet-20250219",
       capabilities |-> <<"Reasoning", "Efficient", "Agentic">>],
      [id |-> "qwen-qwq", provider |-> "Groq", name |-> "Qwen QWQ",
       description |-> "Latest version of Alibaba's Qwen QWQ with strong reasoning and coding capabilities.",
       apiVersion |-> "qwen-qwq",
       capabilities |-> <<"Reasoning", "Efficient", "Agentic">>],
      [id |-> "grok-3-mini", provider |-> "XAI", name |-> "Grok 3 Mini",
       description |-> "Latest version of XAI's Grok 3 Mini with strong reasoning and coding capabilities.",
       apiVersion |-> "grok-3-mini-latest",
       capabilities |-> <<"Reasoning", "Efficient", "Agentic">>],
      [id |-> "gemini-pro", provider |-> "Google", name |-> "Gemini Pro",
       description |-> "Google's Gemini Pro model with strong reasoning, coding, and multimodal capabilities.",
       apiVersion |-> "gemini-pro",
       capabilities |-> <<"Reasoning", "Multimodal", "Coding">>],
      [id |-> "gemini-2-5-flash-preview", provider |-> "Google", name |-> "Gemini 2.5 Flash Preview",
       description |-> "Latest preview version of Gemini 2.5 Flash with improved speed and capabilities.",
       apiVersion |-> "gemini-2.5-flash-preview-04-17",
       capabilities |-> <<"Fast", "Preview", "Improved">>],
      [id |-> "gemini-2-5-pro-exp", provider |-> "Google", name |-> "Gemini 2.5 Pro Experimental",
       description |-> "Experimental version of Gemini 2.5 Pro with advanced features and capabilities.",
       apiVersion |-> "gemini-2.5-pro-exp-03-25",
       capabilities |-> <<"Advanced", "Experimental", "Enhanced">>],
      [id |-> "gemini-2-0-flash", provider |-> "Google", name |-> "Gemini 2.0 Flash",
       description |-> "Fast and efficient version of Gemini 2.0 optimized for quick responses.",
       apiVersion |-> "gemini-2.0-flash",
       capabilities |-> <<"Fast", "Efficient", "Optimized">>] >>

\* A variant of the default identifier: the backend version string of the
\* entry instead of its registry key.
defaultModelBackendVersion == "qwen-qwq-32b"

defaultModelLiteral == "qwen-qwq"

\* The provider name the catalog uses for each client family.
ProviderName(fam) ==
    CASE fam = "openai" -> "OpenAI"
      [] fam = "anthropic" -> "Anthropic"
      [] fam = "groq" -> "Groq"
      [] fam = "xai" -> "XAI"
      [] fam = "google" -> "Google"

----------------------------------------------------------------------------
\* An object literal: a later property of the same name replaces an earlier
\* one, and Object.keys lists the names in the order of first insertion.
LiteralKeys(lit) == {lit[i].id : i \in 1..Len(lit)}

LastIndex(lit, k) ==
    CHOOSE i \in 1..Len(lit) :
        lit[i].id = k /\ \A j \in (i + 1)..Len(lit) : lit[j].id # k

ObjectLiteral(lit) == [k \in LiteralKeys(lit) |-> lit[LastIndex(lit, k)]]

RECURSIVE KeysInOrder(_, _)
KeysInOrder(lit, seen) ==
    IF lit = <<>> THEN <<>>
    ELSE IF Head(lit).id \in seen THEN KeysInOrder(Tail(lit), seen)
    ELSE <<Head(lit).id>> \o KeysInOrder(Tail(lit), seen \cup {Head(lit).id})

ObjectKeys(lit) == KeysInOrder(lit, {})

----------------------------------------------------------------------------
\* getApiKey with the two sources consulted in the opposite order.
getApiKeyStoreFirst(key) ==
    IF hasWindow /\ Truthy(store[key]) THEN OrUndefined(store[key])
    ELSE OrUndefined(env[key])

\* getApiKey without the `typeof window` test: reading window.localStorage
\* where no window exists raises a ReferenceError.
getApiKeyNoWindowTest(key) ==
    IF Truthy(env[key]) THEN OrUndefined(env[key])
    ELSE IF hasWindow THEN OrUndefined(store[key])
    ELSE ReferenceError

\* getApiKey: the environment first, then localStorage if there is a window.
\* localStorage.getItem returns null for a key that is not stored.
getApiKey(key) ==
    IF Truthy(env[key]) THEN OrUndefined(env[key])
    ELSE IF hasWindow THEN OrUndefined(store[key])
    ELSE Undefined

----------------------------------------------------------------------------
\* The places of the module's evaluation where a call into a provider
\* package can throw: the five client factories, the eight entries of the
\* registry literal, and customProvider.
NumClients == Len(ClientOrder)

NumEntries == Len(languageModelsLiteral)

LastThrowPoint == NumClients + NumEntries + 1

\* The first client whose credential resolution raises, 0 if none does.
FirstRaise ==
    LET raising == {i \in 1..NumClients : getApiKey(KeyOf(ClientOrder[i])) = ReferenceError}
    IN  IF raising = {} THEN 0
        ELSE CHOOSE i \in raising : \A j \in raising : i <= j

\* The first throw of an evaluation in which the package call at point f
\* throws (f = 0: none does).  The argument of a factory is evaluated before
\* the factory is called.
FirstThrow(f) ==
    IF FirstRaise # 0 /\ (f = 0 \/ FirstRaise <= f) THEN FirstRaise ELSE f

\* An evaluation that catches what is thrown and carries on.
abortPointCaught(t) == 0

\* The module has no try/catch: the first throw ends its evaluation there.
abortPoint(t) == t

\* Listener registration without the `typeof window` test.
registersListenerAlways == TRUE

\* The listener is registered only where a window exists.
registersListener == hasWindow

\* The names a module that evaluated, or failed to, offers its importers.
Exposed ==
    IF status = "ready"
    THEN {"model", "MODELS", "defaultModel", "modelDetails"} \cap assigned
    ELSE {}

----------------------------------------------------------------------------
Init ==
    /\ hasWindow \in BOOLEAN
    /\ env = [k \in ProviderKeys |-> Undefined]
    /\ store = [k \in ProviderKeys |-> Null]
    /\ writes = 0
    /\ events = <<>>
    /\ reloads = 0
    /\ status = "unloaded"
    /\ thrown = "none"
    /\ assigned = {}
    /\ clients = <<>>
    /\ languageModels = <<>>
    /\ modelDetails = <<>>
    /\ listening = FALSE
    /\ model = <<>>
    /\ MODELS = <<>>
    /\ defaultModel = Undefined

\* The evaluation of the module, top to bottom, in one synchronous run.
ModuleInit(f) ==
    LET t == FirstThrow(f)
        F == abortPoint(t)
        Done(i) == F = 0 \/ i < F
        built == {ClientOrder[i] : i \in {j \in 1..NumClients : Done(j)}}
        registryDone == Done(NumClients + NumEntries)
    IN  /\ status = "unloaded"
        /\ clients' = [fam \in built |->
                          [apiKey |-> getApiKey(KeyOf(fam)),
                           baseURL |-> BaseURLOf(fam)]]
        /\ languageModels' =
              IF registryDone THEN ObjectLiteral(languageModelsLiteral) ELSE <<>>
        /\ modelDetails' =
              IF registryDone THEN ObjectLiteral(modelDetailsLiteral) ELSE <<>>
        /\ listening' = (registryDone /\ registersListener)
        /\ model' =
              IF F = 0 THEN ObjectLiteral(languageModelsLiteral) ELSE <<>>
        /\ MODELS' = IF F = 0 THEN ObjectKeys(languageModelsLiteral) ELSE <<>>
        /\ defaultModel' = IF F = 0 THEN defaultModelLiteral ELSE Undefined
        /\ assigned' =
              {ConstOf(fam) : fam \in built}
              \cup (IF registryDone THEN {"languageModels", "modelDetails"} ELSE {})
              \cup (IF F = 0 THEN {"model", "MODELS", "defaultModel"} ELSE {})
        /\ status' = IF F = 0 THEN "ready" ELSE "failed"
        /\ thrown' = IF t = 0 THEN "none"
                     ELSE IF t = FirstRaise THEN "ReferenceError"
                     ELSE "construction"
        /\ UNCHANGED <<hasWindow, env, store, writes, events, reloads>>

\* window.location.reload(): the document and its module state are torn
\* down, and the events queued for it with them.
Reload ==
    /\ reloads < MaxReloads
    /\ reloads' = reloads + 1
    /\ status' = "unloaded"
    /\ thrown' = "none"
    /\ assigned' = {}
    /\ clients' = <<>>
    /\ languageModels' = <<>>
    /\ modelDetails' = <<>>
    /\ listening' = FALSE
    /\ model' = <<>>
    /\ MODELS' = <<>>
    /\ defaultModel' = Undefined
    /\ events' = <<>>
    /\ UNCHANGED <<hasWindow, env, store, writes>>

\* The handler's test under a stricter reading: the key is one of the five
\* key names the module resolves.
keyNamesCredentialExact(event) == \E k \in event.key : k \in ProviderKeys

\* event.key?.includes('API_KEY'); event.key is {} for a null key.
keyNamesCredential(event) == \E k \in event.key : Includes(k, API_KEY)

\* A handler that re-resolves the changed credential in place.
onStorageRotate(event) ==
    IF keyNamesCredential(event)
    THEN /\ clients' = [fam \in DOMAIN clients |->
                           [clients[fam] EXCEPT !.apiKey = getApiKey(KeyOf(fam))]]
         /\ events' = Tail(events)
         /\ UNCHANGED <<hasWindow, env, store, writes, reloads, status, thrown,
                        assigned, languageModels, modelDetails, listening,
                        model, MODELS, defaultModel>>
    ELSE /\ events' = Tail(events)
         /\ UNCHANGED <<hasWindow, env, store, writes, reloads, status, thrown,
                        listening, moduleVars>>

\* The 'storage' listener.
onStorage(event) ==
    IF keyNamesCredential(event)
    THEN Reload
    ELSE /\ events' = Tail(events)
         /\ UNCHANGED <<hasWindow, env, store, writes, reloads, status, thrown,
                        listening, moduleVars>>

\* The next storage event is dispatched: to the listener if one is
\* registered, to nobody otherwise.
Deliver ==
    /\ events # <<>>
    /\ IF listening
       THEN onStorage(Head(events))
       ELSE /\ events' = Tail(events)
            /\ UNCHANGED <<hasWindow, env, store, writes, reloads, status,
                           thrown, listening, moduleVars>>

\* The environment of the process changes.
EnvWrite(k, v) ==
    /\ writes < MaxWrites
    /\ v # env[k]
    /\ env' = [env EXCEPT ![k] = v]
    /\ writes' = writes + 1
    /\ UNCHANGED <<hasWindow, store, events, reloads, status, thrown, listening,
                   moduleVars>>

\* Another document sets (v # Null) or removes (v = Null) a credential in
\* localStorage; a storage event with that key is dispatched.
StoreWrite(k, v) ==
    /\ writes < MaxWrites
    /\ Len(events) < MaxPending
    /\ v # store[k]
    /\ store' = [store EXCEPT ![k] = v]
    /\ events' = Append(events, [key |-> {k}])
    /\ writes' = writes + 1
    /\ UNCHANGED <<hasWindow, env, reloads, status, thrown, listening, moduleVars>>

\* Another document changes a localStorage entry the module never reads.
OtherStoreWrite(k) ==
    /\ writes < MaxWrites
    /\ Len(events) < MaxPending
    /\ events' = Append(events, [key |-> {k}])
    /\ writes' = writes + 1
    /\ UNCHANGED <<hasWindow, env, store, reloads, status, thrown, listening,
                   moduleVars>>

\* Another document calls localStorage.clear(): the event's key is null.
StoreClear ==
    /\ writes < MaxWrites
    /\ Len(events) < MaxPending
    /\ store' = [k \in ProviderKeys |-> Null]
    /\ events' = Append(events, [key |-> {}])
    /\ writes' = writes + 1
    /\ UNCHANGED <<hasWindow, env, reloads, status, thrown, listening, moduleVars>>

Next ==
    \/ \E f \in 0..LastThrowPoint : ModuleInit(f)
    \/ Deliver
    \/ \E k \in ProviderKeys, v \in EnvValues : EnvWrite(k, v)
    \/ \E k \in ProviderKeys, v \in StoreValues : StoreWrite(k, v)
    \/ \E k \in OtherKeys : OtherStoreWrite(k)
    \/ StoreClear

Spec == Init /\ [][Next]_vars

----------------------------------------------------------------------------
\* src/ai/types.ts: the value sets of the Google provider options.
HarmCategory ==
    {"HARM_CATEGORY_DANGEROUS_CONTENT", "HARM_CATEGORY_HATE_SPEECH",
     "HARM_CATEGORY_HARASSMENT", "HARM_CATEGORY_SEXUALLY_EXPLICIT"}

HarmBlockThreshold ==
    {"BLOCK_LOW_AND_ABOVE", "BLOCK_MEDIUM_AND_ABOVE", "BLOCK_HIGH_AND_ABOVE",
     "BLOCK_ONLY_HIGH"}

ResponseModality == {"TEXT", "IMAGE"}

\* o has the shape of GoogleProviderOptions.
GoogleProviderOptions(o) ==
    /\ DOMAIN o = {"responseModalities", "thinkingConfig", "safetySettings"}
    /\ \A i \in 1..Len(o.responseModalities) :
           o.responseModalities[i] \in ResponseModality
    /\ DOMAIN o.thinkingConfig = {"thinkingBudget"}
    /\ o.thinkingConfig.thinkingBudget \in Int
    /\ \A i \in 1..Len(o.safetySettings) :
           /\ o.safetySettings[i].category \in HarmCategory
           /\ o.safetySettings[i].threshold \in HarmBlockThreshold

----------------------------------------------------------------------------
\* Steps of a behaviour, recognised by what they change.
InitStep == status = "unloaded" /\ status' # "unloaded"

ReloadStep == status' = "unloaded" /\ reloads' = reloads + 1

DeliverStep == events # <<>> /\ Len(events') < Len(events)

Range(seq) == {seq[i] : i \in 1..Len(seq)}

\* The eight identifiers of the registry.
RegistryIds ==
    {"gpt-4.1-mini", "claude-3-7-sonnet", "qwen-qwq", "grok-3-mini",
     "gemini-pro", "gemini-2-5-flash-preview", "gemini-2-5-pro-exp",
     "gemini-2-0-flash"}

\* The event keys of the model that contain "API_KEY".
CredentialEventKeys == ProviderKeys \cup {API_KEYS}

----------------------------------------------------------------------------
\* C1: once the module is initialised, the registry and the catalog have the
\* same keys: every identifier of MODELS has its modelDetails record (filed
\* under its own identifier), and every modelDetails key is in MODELS.
CatalogRegistryParity ==
    status = "ready" =>
        /\ DOMAIN languageModels = DOMAIN modelDetails
        /\ Range(MODELS) = DOMAIN modelDetails
        /\ \A k \in DOMAIN modelDetails : modelDetails[k].id = k

CatalogRegistryParityWitness ==
    /\ status = "ready"
    /\ Len(MODELS) = Cardinality(RegistryIds)
    /\ "grok-3-mini" \in DOMAIN modelDetails

\* C2: in every state after an initialisation, also one that follows a
\* reload, the default identifier is a member of MODELS.
DefaultIsListed ==
    status = "ready" => \E i \in 1..Len(MODELS) : MODELS[i] = defaultModel

DefaultIsListedWitness ==
    /\ status = "ready"
    /\ reloads > 0
    /\ defaultModel \in Range(MODELS)

\* C3: every registry entry built from googleClient carries provider options
\* with response modalities exactly <<"TEXT">>, thinking budget 1024 and
\* exactly the four harm categories, each at BLOCK_MEDIUM_AND_ABOVE.
GoogleFixedOptions ==
    "languageModels" \in assigned =>
        \A k \in DOMAIN languageModels :
            languageModels[k].client = "google" =>
                /\ Cardinality(languageModels[k].providerOptions) = 1
                /\ \A o \in languageModels[k].providerOptions :
                       /\ GoogleProviderOptions(o)
                       /\ o.responseModalities = <<"TEXT">>
                       /\ o.thinkingConfig.thinkingBudget = 1024
                       /\ Len(o.safetySettings) = Cardinality(HarmCategory)
                       /\ {st.category : st \in Range(o.safetySettings)} = HarmCategory
                       /\ \A st \in Range(o.safetySettings) :
                              st.threshold = "BLOCK_MEDIUM_AND_ABOVE"

GoogleFixedOptionsWitness ==
    /\ status = "ready"
    /\ Cardinality({k \in DOMAIN languageModels :
                       languageModels[k].client = "google"}) = 4
    /\ "google" \in DOMAIN clients

\* C4 as stated: whenever both sources hold a value for a key, the
\* credential resolved at initialisation is the environment's (an empty one
\* handed on as absent, as `|| undefined` does) and never the store's.
EnvPrecedenceAnyValue ==
    [][InitStep =>
          \A fam \in DOMAIN clients' :
              (env[KeyOf(fam)] # Undefined /\ store[KeyOf(fam)] # Null) =>
                  clients'[fam].apiKey =
                      IF env[KeyOf(fam)] = "" THEN Undefined ELSE env[KeyOf(fam)]]_vars

\* C4, amended: whenever the environment holds a non-empty value for a key
\* and the store holds a value for it, the credential resolved at
\* initialisation is the environment's value and not the store's.
EnvPrecedenceNonEmpty ==
    [][InitStep =>
          \A fam \in DOMAIN clients' :
              (env[KeyOf(fam)] \notin {Undefined, ""} /\ store[KeyOf(fam)] # Null) =>
                  clients'[fam].apiKey = env[KeyOf(fam)]]_vars

EnvPrecedenceWitness ==
    /\ status = "ready"
    /\ hasWindow
    /\ \E fam \in DOMAIN clients :
           /\ env[KeyOf(fam)] = "env-key"
           /\ store[KeyOf(fam)] = "store-key"
           /\ clients[fam].apiKey = "env-key"

ReloadOnCredentialChange ==
    [][/\ ~hasWindow => (~listening /\ reloads = 0)
       /\ ~hasWindow' => (~listening' /\ reloads' = 0)
       /\ status' = "ready" => (listening' = hasWindow')
       /\ (DeliverStep /\ listening) =>
              ((reloads' = reloads + 1) <=>
                   (Head(events).key \cap CredentialEventKeys # {}))
       /\ (DeliverStep /\ ~listening) => reloads' = reloads]_vars

ReloadOnCredentialChangeWitness ==
    /\ hasWindow
    /\ reloads > 0
    /\ status = "unloaded"
    /\ ~listening

\* C8: an initialisation in which anything throws ends with the module
\* failed and nothing exposed; a registry, once assigned, holds all eight
\* entries exactly as the literal gives them; an initialised module exposes
\* all four names.
AllOrNothing ==
    /\ thrown # "none" =>
           /\ status = "failed"
           /\ Exposed = {}
           /\ assigned \cap {"model", "MODELS", "defaultModel"} = {}
    /\ "languageModels" \in assigned =>
           /\ DOMAIN languageModels = RegistryIds
           /\ \A k \in RegistryIds :
                  /\ languageModels[k].id = k
                  /\ languageModels[k] \in Range(languageModelsLiteral)
    /\ status = "ready" =>
           /\ thrown = "none"
           /\ Exposed = {"model", "MODELS", "defaultModel", "modelDetails"}
           /\ DOMAIN model = RegistryIds

AllOrNothingWitness ==
    /\ status = "failed"
    /\ thrown = "construction"
    /\ "modelDetails" \in assigned
    /\ Exposed = {}

\* C9: the module's state (the clients with their credentials, the registry,
\* the catalog, the identifier list, the default identifier) changes only in
\* an initialisation or in a reload; no other step, a write to either
\* credential source and a handled storage event included, changes it.
PostInitImmutable ==
    [][(moduleVars' # moduleVars) => (InitStep \/ ReloadStep)]_vars

PostInitImmutableWitness ==
    /\ status = "ready"
    /\ hasWindow
    /\ env[OPENAI_API_KEY] = Undefined
    /\ store[OPENAI_API_KEY] = "store-key"
    /\ clients["openai"].apiKey = Undefined

\* C10: for every identifier of the registry, the catalog's apiVersion is the
\* version string passed to the client that built the entry, and the
\* catalog's provider names that client's family.
CatalogVersionConsistency ==
    "modelDetails" \in assigned =>
        \A k \in DOMAIN languageModels :
            /\ modelDetails[k].apiVersion = languageModels[k].version
            /\ modelDetails[k].provider = ProviderName(languageModels[k].client)

====
